---- MODULE Spec2Model ----
(***************************************************************************)
(* Model of the Jellyfin-Jellyseerr integration plugin (src/plugin.js):    *)
(* the catalog refresh cycle and its timer, the hash-path view routing,    *)
(* the content pages and cards, the request workflow and the               *)
(* notifications.                                                          *)
(*                                                                         *)
(* JavaScript runs the plugin on one event loop, so every action below is  *)
(* one run-to-suspension step: a handler from its entry (or from the       *)
(* resumption of an await) up to its next await or its return.             *)
(*                                                                         *)
(* Paths are sequences of tokens: the token "/" or a word (a non-empty     *)
(* string without '/'), never two words next to each other, so that        *)
(* <<"/", "jellyseerr", "/", "browse">> is the string '/jellyseerr/browse'.*)
(***************************************************************************)
EXTENDS Integers, Sequences, FiniteSets, TLC

VARIABLES
    initPc,          \* position of init(): "constructed", "awaitRefresh", "ready"
    options,         \* plugin.options
    serverConnector, \* plugin.serverConnector: baseUrl and apiKey
    networkCache,    \* plugin.networkCache: property key -> network
    studioCache,     \* plugin.studioCache: property key -> studio
    lastRefresh,     \* plugin.lastRefresh: 0 is null, n the n-th refresh's time
    refreshes,       \* refreshData() invocations, in start order: the position
                     \* each is suspended at or has returned from
    home,            \* the home section container handed to renderNetworksAndStudios
    hash,            \* window.location.hash without the leading '#'
    container,       \* children of #content-container, in document order
    renders,         \* render*ContentPage invocations suspended at the content call
    lastView,        \* the branch the latest renderCustomView took
    modal,           \* #jellyseerr-modal-container: the details modal, if shown
    requests,        \* requestContent invocations suspended at the remote call
    serverRequests,  \* keys the remote service has acknowledged a request for
    notifications,   \* children of #jellyseerr-notification-container
    navCount,        \* view-change events delivered so far
    submitCount,     \* requestContent invocations so far
    saveCount,       \* configuration saves so far
    now,             \* the time of the event loop's timers, in milliseconds
    refreshTimer     \* the interval timer init() arms: its period and the time
                     \* its callback is due next

vars == <<initPc, options, serverConnector, networkCache, studioCache,
          lastRefresh, refreshes, home, hash, container, renders, lastView,
          modal, requests, serverRequests, notifications,
          navCount, submitCount, saveCount, now, refreshTimer>>

(***************************************************************************)
(* Bounds of the model.                                                    *)
(***************************************************************************)
MaxRefresh == 3
MaxCatalog == 2
MaxItems == 2
MaxNav == 2
MaxSubmit == 2
MaxSave == 1
MaxVisits == 1
MaxHours == 24
MaxSeconds == 6

(***************************************************************************)
(* Delays of the program's timers, in milliseconds.                        *)
(***************************************************************************)
\* refreshInterval is given in hours
MillisPerHour == 3600000

\* a notification starts to fade out after 5 seconds
FadeOutDelay == 5000

\* and is removed when the fade-out has run
RemoveDelay == 500

(***************************************************************************)
(* Helpers on sequences.                                                   *)
(***************************************************************************)
BoundedSeq(S, n) == UNION {[1..k -> S] : k \in 0..n}

RemoveAt(s, i) == SubSeq(s, 1, i - 1) \o SubSeq(s, i + 1, Len(s))

Range(s) == {s[i] : i \in DOMAIN s}

RECURSIVE Concat(_)
Concat(tokens) ==
    IF tokens = <<>> THEN "" ELSE Head(tokens) \o Concat(Tail(tokens))

(***************************************************************************)
(* Data the remote service can return.                                     *)
(***************************************************************************)
NetworkEntities == {[id |-> 7, name |-> "HBO"], [id |-> 8, name |-> "Netflix"]}

StudioEntities == {[id |-> 9, name |-> "Warner Bros."]}

NetworksResponses == BoundedSeq(NetworkEntities, MaxCatalog)

StudiosResponses == BoundedSeq(StudioEntities, MaxCatalog)

MovieItems ==
    {[id |-> 42, mediaType |-> "movie", title |-> "Dune", available |-> FALSE],
     [id |-> 42, mediaType |-> "movie", title |-> "Dune", available |-> TRUE]}

TvItems ==
    {[id |-> 42, mediaType |-> "tv", title |-> "Dune", available |-> FALSE]}

\* the modal container when it is empty
NoModal == [open |-> FALSE, item |-> CHOOSE i \in TvItems : TRUE]

ContentResponses ==
    [movies : BoundedSeq(MovieItems, MaxItems), tvShows : BoundedSeq(TvItems, 1)]

Keys == {<<ToString(i.id), i.mediaType>> : i \in MovieItems \cup TvItems}

(***************************************************************************)
(* Configuration.                                                          *)
(***************************************************************************)
defaultSettings ==
    [jellyseerrUrl |-> "http://localhost:5055",
     jellyseerrApiKey |-> "",
     refreshInterval |-> 12,
     displayNetworks |-> <<"HBO", "Netflix">>,
     displayStudios |-> <<"Warner Bros.">>]

SavedSettings ==
    {[jellyseerrUrl |-> "http://seerr:5055",
      jellyseerrApiKey |-> "key",
      refreshInterval |-> 6,
      displayNetworks |-> <<"Netflix", "HBO">>,
      displayStudios |-> <<>>]}

JellyseerrServerConnector(opts) ==
    [baseUrl |-> opts.jellyseerrUrl, apiKey |-> opts.jellyseerrApiKey]

(***************************************************************************)
(* Paths.                                                                  *)
(***************************************************************************)
BrowsePath == <<"/", "jellyseerr", "/", "browse">>

PluginPrefix == <<"/", "jellyseerr", "/">>

NetworkPrefix == <<"/", "jellyseerr", "/", "network", "/">>

StudioPrefix == <<"/", "jellyseerr", "/", "studio", "/">>

NavPaths ==
    {BrowsePath,
     NetworkPrefix \o <<"7">>,
     NetworkPrefix \o <<"7", "/", "x">>,
     NetworkPrefix \o <<"constructor">>,
     StudioPrefix \o <<"9">>,
     PluginPrefix \o <<"nonsense">>}

\* String.prototype.startsWith, for a prefix that ends with '/'
startsWith(path, prefix) ==
    /\ Len(path) >= Len(prefix)
    /\ SubSeq(path, 1, Len(prefix)) = prefix

\* path.split('/').pop(): the text after the last '/'
splitPop(path) ==
    IF path = <<>> \/ path[Len(path)] = "/" THEN "" ELSE path[Len(path)]

(***************************************************************************)
(* JavaScript objects used as maps.                                        *)
(***************************************************************************)
\* the object literal {}
EmptyObject == [k \in {} |-> [id |-> 0, name |-> ""]]

\* acc[key] = value
Put(obj, key, value) ==
    [k \in DOMAIN obj \cup {key} |-> IF k = key THEN value ELSE obj[k]]

\* names every object created by {} inherits from Object.prototype
ObjectPrototypeKeys == {"constructor"}

\* Object.prototype.constructor is the function Object: truthy, named
\* "Object", without an id
InheritedProperty == [id |-> 0, name |-> "Object"]

\* whether obj[key] is truthy: own entries are entity objects, inherited
\* properties are functions, anything else is undefined
HasTruthy(obj, key) == key \in DOMAIN obj \/ key \in ObjectPrototypeKeys

\* obj[key], where HasTruthy(obj, key)
Get(obj, key) == IF key \in DOMAIN obj THEN obj[key] ELSE InheritedProperty

\* data.reduce((acc, e) => { acc[e.id] = e; return acc; }, {})
RECURSIVE reduce(_, _)
reduce(data, acc) ==
    IF data = <<>> THEN acc
    ELSE reduce(Tail(data), Put(acc, ToString(Head(data).id), Head(data)))

(***************************************************************************)
(* The home section.                                                       *)
(***************************************************************************)
\* Object.values(cache).find(e => e.name === name): integer-like keys are
\* visited in ascending numeric order
find(cache, name) ==
    LET hits == {k \in DOMAIN cache : cache[k].name = name}
    IN  IF hits = {} THEN <<>>
        ELSE <<CHOOSE k \in hits : \A j \in hits : cache[k].id <= cache[j].id>>

\* the cards appended for the configured names, as their data-id
RECURSIVE selectCards(_, _)
selectCards(names, cache) ==
    IF names = <<>> THEN <<>>
    ELSE find(cache, Head(names)) \o selectCards(Tail(names), cache)

renderNetworksAndStudios(opts, nc, sc) ==
    [rendered |-> TRUE,
     networks |-> selectCards(opts.displayNetworks, nc),
     studios |-> selectCards(opts.displayStudios, sc)]

(***************************************************************************)
(* Pages and cards of the content container.                               *)
(***************************************************************************)
\* a card that gets its request button whatever the availability
createContentCard_alwaysButton(item) ==
    [id |-> ToString(item.id),
     mediaType |-> item.mediaType,
     item |-> item,
     badge |-> IF item.available THEN "Available" ELSE "Not Available",
     button |-> TRUE]

createContentCard(item) ==
    [id |-> ToString(item.id),
     mediaType |-> item.mediaType,
     item |-> item,
     badge |-> IF item.available THEN "Available" ELSE "Not Available",
     button |-> ~item.available]

createContentSection(items) == [i \in DOMAIN items |-> createContentCard(items[i])]

\* the browse page: one card per cached entity (the order by name is not
\* modelled, the cards are kept as the set of their data-id)
renderBrowsePage(nc, sc) ==
    [kind |-> "browse", title |-> "Browse Networks & Studios",
     networks |-> DOMAIN nc, studios |-> DOMAIN sc,
     movies |-> <<>>, tvShows |-> <<>>, error |-> FALSE]

NotFoundPage(text) ==
    [kind |-> "notfound", title |-> text,
     networks |-> {}, studios |-> {},
     movies |-> <<>>, tvShows |-> <<>>, error |-> FALSE]

\* the page a render appends once its content call has returned
ContentPage(render, content) ==
    [kind |-> render.kind, title |-> render.name,
     networks |-> {}, studios |-> {},
     movies |-> createContentSection(content.movies),
     tvShows |-> createContentSection(content.tvShows),
     error |-> FALSE]

\* the page a render appends once its content call has failed
ErrorPage(render) ==
    [kind |-> render.kind, title |-> render.name,
     networks |-> {}, studios |-> {},
     movies |-> <<>>, tvShows |-> <<>>, error |-> TRUE]

(***************************************************************************)
(* Routing.                                                                *)
(***************************************************************************)
\* the branch renderCustomView takes for a path
resolve(path) ==
    IF path = BrowsePath THEN [view |-> "BrowseAll", id |-> ""]
    ELSE IF startsWith(path, NetworkPrefix)
         THEN [view |-> "NetworkDetail", id |-> splitPop(path)]
    ELSE IF startsWith(path, StudioPrefix)
         THEN [view |-> "StudioDetail", id |-> splitPop(path)]
    ELSE [view |-> "Unrecognized", id |-> ""]

\* render*ContentPage up to its await: not found, or suspended at the call
renderContentPage(kind, cache, id, text, rends) ==
    IF ~HasTruthy(cache, id)
    THEN [container |-> <<NotFoundPage(text)>>, renders |-> rends]
    ELSE [container |-> <<>>,
          renders |-> Append(rends, [kind |-> kind, id |-> id,
                                     name |-> Get(cache, id).name])]

\* renderCustomView up to its first await: the container and the suspended
\* renders it leaves
renderCustomView(path, nc, sc, rends) ==
    LET v == resolve(path)
    IN  IF v.view = "BrowseAll"
        THEN [container |-> <<renderBrowsePage(nc, sc)>>, renders |-> rends]
        ELSE IF v.view = "NetworkDetail"
        THEN renderContentPage("network", nc, v.id, "Network not found", rends)
        ELSE IF v.view = "StudioDetail"
        THEN renderContentPage("studio", sc, v.id, "Studio not found", rends)
        ELSE [container |-> <<>>, renders |-> rends]

\* updateUI after a refresh: the home section is rendered again when it is
\* in the document, the custom view when the location is one of the plugin's
updateUI(nc, sc) ==
    /\ home' = IF home.rendered THEN renderNetworksAndStudios(options, nc, sc)
               ELSE home
    /\ IF startsWith(hash, PluginPrefix)
       THEN LET r == renderCustomView(hash, nc, sc, renders)
            IN  /\ container' = r.container
                /\ renders' = r.renders
                /\ lastView' = resolve(hash)
       ELSE UNCHANGED <<container, renders, lastView>>

(***************************************************************************)
(* Initial state: the plugin as its constructor leaves it, nothing         *)
(* rendered, the location outside the plugin's views.                      *)
(***************************************************************************)
Init ==
    /\ initPc = "constructed"
    /\ options = defaultSettings
    /\ serverConnector = JellyseerrServerConnector(defaultSettings)
    /\ networkCache = EmptyObject
    /\ studioCache = EmptyObject
    /\ lastRefresh = 0
    /\ refreshes = <<>>
    /\ home = [rendered |-> FALSE, networks |-> <<>>, studios |-> <<>>]
    /\ hash = <<"/", "home">>
    /\ container = <<>>
    /\ renders = <<>>
    /\ lastView = [view |-> "Home", id |-> ""]
    /\ modal = NoModal
    /\ requests = <<>>
    /\ serverRequests = {}
    /\ notifications = <<>>
    /\ navCount = 0
    /\ submitCount = 0
    /\ saveCount = 0
    /\ now = 0
    /\ refreshTimer = [armed |-> FALSE, interval |-> 0, due |-> 0]

(***************************************************************************)
(* Catalog refresh.                                                        *)
(***************************************************************************)
viewVars == <<home, container, renders, lastView>>

\* setInterval(callback, delay) called at time t: the callback is due every
\* delay milliseconds from then on
setInterval(delay, t) == [armed |-> TRUE, interval |-> delay, due |-> t + delay]

requestVars == <<modal, requests, serverRequests, notifications, submitCount>>

\* refreshData up to its first await: the timestamp is taken and the
\* networks call is issued
refreshData ==
    /\ Len(refreshes) < MaxRefresh
    /\ lastRefresh' = Len(refreshes) + 1
    /\ refreshes' = Append(refreshes, "getNetworks")

\* a refreshData that throws again what it has caught: init() ends there
refreshReturns_rethrows(r, pc) ==
    /\ refreshes' = [refreshes EXCEPT ![r] = pc]
    /\ initPc' = IF r = 1 /\ pc = "done" THEN "ready" ELSE initPc
    /\ refreshTimer' = IF r = 1 /\ pc = "done"
                       THEN setInterval(options.refreshInterval * MillisPerHour, now)
                       ELSE refreshTimer

\* refreshData returns (its promise is fulfilled) at position pc: "done"
\* after updateUI, "caughtNetworks" or "caughtStudios" after the catch block;
\* init(), which awaits the first refresh, goes on to arm the timer and the
\* view-change listener
refreshReturns(r, pc) ==
    /\ refreshes' = [refreshes EXCEPT ![r] = pc]
    /\ initPc' = IF r = 1 THEN "ready" ELSE initPc
    /\ refreshTimer' = IF r = 1
                       THEN setInterval(options.refreshInterval * MillisPerHour, now)
                       ELSE refreshTimer

\* init(): components are registered, the first refresh is started
init ==
    /\ initPc = "constructed"
    /\ initPc' = "awaitRefresh"
    /\ refreshData
    /\ UNCHANGED <<refreshTimer, options, serverConnector, networkCache, studioCache,
                   hash, navCount, saveCount>>
    /\ UNCHANGED viewVars
    /\ UNCHANGED requestVars
    /\ UNCHANGED now

\* the setInterval callback, run when it is due
Tick ==
    /\ refreshTimer.armed
    /\ now = refreshTimer.due
    /\ refreshTimer' = [refreshTimer EXCEPT !.due = @ + refreshTimer.interval]
    /\ refreshData
    /\ UNCHANGED <<initPc, options, serverConnector, networkCache, studioCache,
                   hash, navCount, saveCount>>
    /\ UNCHANGED viewVars
    /\ UNCHANGED requestVars
    /\ UNCHANGED now

\* a save handler that sets the timer again for the saved period
onSave_restartsTimer(settings) ==
    /\ initPc # "constructed"
    /\ saveCount < MaxSave
    /\ saveCount' = saveCount + 1
    /\ options' = settings
    /\ refreshData
    /\ refreshTimer' = setInterval(settings.refreshInterval * MillisPerHour, now)
    /\ UNCHANGED <<initPc, serverConnector, networkCache, studioCache,
                   hash, navCount>>
    /\ UNCHANGED viewVars
    /\ UNCHANGED requestVars
    /\ UNCHANGED now

\* pluginManifest.config.onSave
onSave(settings) ==
    /\ initPc # "constructed"
    /\ saveCount < MaxSave
    /\ saveCount' = saveCount + 1
    /\ options' = settings
    /\ refreshData
    /\ UNCHANGED <<initPc, refreshTimer, serverConnector, networkCache, studioCache,
                   hash, navCount>>
    /\ UNCHANGED viewVars
    /\ UNCHANGED requestVars
    /\ UNCHANGED now

\* a reduce that starts from the mapping in use instead of from {}
NetworksOk_mergesIntoCache(r, data) ==
    /\ refreshes[r] = "getNetworks"
    /\ networkCache' = reduce(data, networkCache)
    /\ refreshes' = [refreshes EXCEPT ![r] = "getStudios"]
    /\ UNCHANGED <<initPc, refreshTimer, options, serverConnector, studioCache, lastRefresh,
                   hash, navCount, saveCount>>
    /\ UNCHANGED viewVars
    /\ UNCHANGED requestVars
    /\ UNCHANGED now

\* getNetworks returns: the networks mapping is replaced, getStudios issued
NetworksOk(r, data) ==
    /\ refreshes[r] = "getNetworks"
    /\ networkCache' = reduce(data, EmptyObject)
    /\ refreshes' = [refreshes EXCEPT ![r] = "getStudios"]
    /\ UNCHANGED <<initPc, refreshTimer, options, serverConnector, studioCache, lastRefresh,
                   hash, navCount, saveCount>>
    /\ UNCHANGED viewVars
    /\ UNCHANGED requestVars
    /\ UNCHANGED now

\* a catch block that resets the mapping it could not fetch
NetworksFail_clearsCache(r) ==
    /\ refreshes[r] = "getNetworks"
    /\ refreshReturns(r, "caughtNetworks")
    /\ networkCache' = EmptyObject
    /\ UNCHANGED <<options, serverConnector, studioCache,
                   lastRefresh, hash, navCount, saveCount>>
    /\ UNCHANGED viewVars
    /\ UNCHANGED requestVars
    /\ UNCHANGED now

\* getNetworks fails: the catch block logs, refreshData returns
NetworksFail(r) ==
    /\ refreshes[r] = "getNetworks"
    /\ refreshReturns(r, "caughtNetworks")
    /\ UNCHANGED <<options, serverConnector, networkCache, studioCache,
                   lastRefresh, hash, navCount, saveCount>>
    /\ UNCHANGED viewVars
    /\ UNCHANGED requestVars
    /\ UNCHANGED now

\* getStudios returns: the studios mapping is replaced, the UI updated
StudiosOk(r, data) ==
    /\ refreshes[r] = "getStudios"
    /\ studioCache' = reduce(data, EmptyObject)
    /\ updateUI(networkCache, studioCache')
    /\ refreshReturns(r, "done")
    /\ UNCHANGED <<options, serverConnector, networkCache, lastRefresh,
                   hash, navCount, saveCount>>
    /\ UNCHANGED requestVars
    /\ UNCHANGED now

\* getStudios fails: the catch block logs, refreshData returns
StudiosFail(r) ==
    /\ refreshes[r] = "getStudios"
    /\ refreshReturns(r, "caughtStudios")
    /\ UNCHANGED <<options, serverConnector, networkCache, studioCache,
                   lastRefresh, hash, navCount, saveCount>>
    /\ UNCHANGED viewVars
    /\ UNCHANGED requestVars
    /\ UNCHANGED now

(***************************************************************************)
(* Views.                                                                  *)
(***************************************************************************)
\* the host renders the registered home section
RenderHome ==
    /\ initPc # "constructed"
    /\ home' = renderNetworksAndStudios(options, networkCache, studioCache)
    /\ UNCHANGED <<initPc, refreshTimer, options, serverConnector, networkCache, studioCache,
                   lastRefresh, refreshes, hash, container, renders, lastView,
                   navCount, saveCount>>
    /\ UNCHANGED requestVars
    /\ UNCHANGED now

\* handleViewChange: only the plugin's own paths are rendered
handleViewChange(view) ==
    IF startsWith(view, PluginPrefix)
    THEN LET r == renderCustomView(view, networkCache, studioCache, renders)
         IN  /\ container' = r.container
             /\ renders' = r.renders
             /\ lastView' = resolve(view)
    ELSE UNCHANGED <<container, renders, lastView>>

\* the host moves to a path (on its own, or asked to by
\* Jellyfin.Navigation.navigate) and fires jellyfin-view-change, which
\* reaches the plugin once init() has added its listener
Navigate(path) ==
    /\ navCount < MaxNav
    /\ navCount' = navCount + 1
    /\ hash' = path
    /\ IF initPc = "ready"
       THEN handleViewChange(path)
       ELSE UNCHANGED <<container, renders, lastView>>
    /\ UNCHANGED <<initPc, refreshTimer, options, serverConnector, networkCache, studioCache,
                   lastRefresh, refreshes, home, saveCount>>
    /\ UNCHANGED requestVars
    /\ UNCHANGED now

\* the content call of a suspended render returns: the page is appended
ContentOk(i, content) ==
    /\ i \in DOMAIN renders
    /\ container' = Append(container, ContentPage(renders[i], content))
    /\ renders' = RemoveAt(renders, i)
    /\ UNCHANGED <<initPc, refreshTimer, options, serverConnector, networkCache, studioCache,
                   lastRefresh, refreshes, home, hash, lastView,
                   navCount, saveCount>>
    /\ UNCHANGED requestVars
    /\ UNCHANGED now

\* a catch block missing: the failure ends the render, no page is appended
ContentFail_throws(i) ==
    /\ i \in DOMAIN renders
    /\ container' = container
    /\ renders' = RemoveAt(renders, i)
    /\ UNCHANGED <<initPc, refreshTimer, options, serverConnector, networkCache, studioCache,
                   lastRefresh, refreshes, home, hash, lastView,
                   navCount, saveCount>>
    /\ UNCHANGED requestVars
    /\ UNCHANGED now

\* the content call of a suspended render fails: the error page is appended
ContentFail(i) ==
    /\ i \in DOMAIN renders
    /\ container' = Append(container, ErrorPage(renders[i]))
    /\ renders' = RemoveAt(renders, i)
    /\ UNCHANGED <<initPc, refreshTimer, options, serverConnector, networkCache, studioCache,
                   lastRefresh, refreshes, home, hash, lastView,
                   navCount, saveCount>>
    /\ UNCHANGED requestVars
    /\ UNCHANGED now

\* the menu item's handler
openNetworkBrowser ==
    /\ initPc # "constructed"
    /\ Navigate(BrowsePath)

\* the cards of networks in the document, as their data-id
NetworkCards ==
    Range(home.networks) \cup UNION {container[p].networks : p \in DOMAIN container}

StudioCards ==
    Range(home.studios) \cup UNION {container[p].studios : p \in DOMAIN container}

\* click on a network card: openNetworkContent
openNetworkContent(key) ==
    /\ key \in NetworkCards
    /\ Navigate(NetworkPrefix \o <<key>>)

\* click on a studio card: openStudioContent
openStudioContent(key) ==
    /\ key \in StudioCards
    /\ Navigate(StudioPrefix \o <<key>>)

(***************************************************************************)
(* Request workflow.                                                       *)
(***************************************************************************)
Groups == {"movies", "tvShows"}

\* positions of the content cards of a container: page, section, index
PositionsIn(cont) ==
    UNION {{<<p, g, c>> : c \in DOMAIN cont[p][g]} : p \in DOMAIN cont, g \in Groups}

\* positions of the content cards in the document
CardPositions == PositionsIn(container)

CardAt(pos) == container[pos[1]][pos[2]][pos[3]]

KeyOf(item) == <<ToString(item.id), item.mediaType>>

\* '.content-card[data-id="${item.id}"][data-media-type="${item.mediaType}"]'
matchesSelector(card, item) ==
    /\ card.id = ToString(item.id)
    /\ card.mediaType = item.mediaType

\* a forEach body that sets the badge and leaves the request button
markRequested_keepsButton(card) == [card EXCEPT !.badge = "Requested"]

\* the forEach body of requestContent: badge set, request button removed
markRequested(card) == [card EXCEPT !.badge = "Requested", !.button = FALSE]

updateCards(cards, item) ==
    [c \in DOMAIN cards |->
        IF matchesSelector(cards[c], item) THEN markRequested(cards[c])
        ELSE cards[c]]

\* showNotification: the notification is appended and its timer set; due is
\* the time the pending timer of the notification runs at
showNotification(title, message, type) ==
    notifications' = Append(notifications,
        [type |-> type, title |-> title, message |-> message, fadeOut |-> FALSE,
         created |-> now, due |-> now + FadeOutDelay])

\* requestContent up to its await: the remote call is issued
requestContent(item) ==
    /\ submitCount < MaxSubmit
    /\ submitCount' = submitCount + 1
    /\ requests' = Append(requests, item)

refreshVars == <<initPc, refreshTimer, options, serverConnector, networkCache, studioCache,
                 lastRefresh, refreshes, saveCount>>

\* a click handler that takes the request button away while the call is made
ClickRequestButton_disablesButton(pos) ==
    /\ pos \in CardPositions
    /\ CardAt(pos).button
    /\ requestContent(CardAt(pos).item)
    /\ container' = [container EXCEPT ![pos[1]][pos[2]][pos[3]].button = FALSE]
    /\ UNCHANGED <<modal, serverRequests, notifications, hash, navCount>>
    /\ UNCHANGED refreshVars
    /\ UNCHANGED <<home, renders, lastView>>
    /\ UNCHANGED now

\* click on the request button of a card (the click does not reach the card)
ClickRequestButton(pos) ==
    /\ pos \in CardPositions
    /\ CardAt(pos).button
    /\ requestContent(CardAt(pos).item)
    /\ UNCHANGED <<modal, serverRequests, notifications, hash, navCount>>
    /\ UNCHANGED refreshVars
    /\ UNCHANGED now
    /\ UNCHANGED viewVars

\* click on an available card: the host is asked to show the library item
ClickAvailableCard(pos) ==
    /\ pos \in CardPositions
    /\ CardAt(pos).item.available
    /\ Navigate(<<"/", "details">>)

\* click on a card that is not available: openDetailsModal
ClickCard(pos) ==
    /\ pos \in CardPositions
    /\ ~CardAt(pos).item.available
    /\ modal' = [open |-> TRUE, item |-> CardAt(pos).item]
    /\ UNCHANGED <<requests, serverRequests, notifications, submitCount,
                   hash, navCount>>
    /\ UNCHANGED refreshVars
    /\ UNCHANGED now
    /\ UNCHANGED viewVars

\* the modal's request button: the request is made, the modal closed
ModalRequest ==
    /\ modal.open
    /\ requestContent(modal.item)
    /\ modal' = NoModal
    /\ UNCHANGED <<serverRequests, notifications, hash, navCount>>
    /\ UNCHANGED refreshVars
    /\ UNCHANGED now
    /\ UNCHANGED viewVars

\* the modal's close button
ModalClose ==
    /\ modal.open
    /\ modal' = NoModal
    /\ UNCHANGED <<requests, serverRequests, notifications, submitCount,
                   hash, navCount>>
    /\ UNCHANGED refreshVars
    /\ UNCHANGED now
    /\ UNCHANGED viewVars

\* the remote call of a suspended requestContent returns
RequestOk(i) ==
    /\ i \in DOMAIN requests
    /\ LET item == requests[i]
       IN  /\ showNotification("Success", item.title \o " has been requested.", "success")
           /\ container' =
                [p \in DOMAIN container |->
                    [container[p] EXCEPT !.movies = updateCards(@, item),
                                         !.tvShows = updateCards(@, item)]]
           /\ serverRequests' = serverRequests \cup {KeyOf(item)}
    /\ requests' = RemoveAt(requests, i)
    /\ UNCHANGED <<modal, submitCount, hash, navCount, home, renders, lastView>>
    /\ UNCHANGED refreshVars
    /\ UNCHANGED now

\* a catch block that puts the cards of the key back to Not Available with
\* their request button
RequestFail_restoresButton(i) ==
    /\ i \in DOMAIN requests
    /\ LET item == requests[i]
       IN  /\ showNotification("Error", "Failed to request " \o item.title \o ".", "error")
           /\ container' =
                [p \in DOMAIN container |->
                    [g \in DOMAIN container[p] |->
                        IF g \in Groups
                        THEN [c \in DOMAIN container[p][g] |->
                                IF matchesSelector(container[p][g][c], item)
                                THEN [container[p][g][c] EXCEPT
                                         !.badge = "Not Available", !.button = TRUE]
                                ELSE container[p][g][c]]
                        ELSE container[p][g]]]
    /\ requests' = RemoveAt(requests, i)
    /\ UNCHANGED <<modal, serverRequests, submitCount, hash, navCount>>
    /\ UNCHANGED refreshVars
    /\ UNCHANGED <<home, renders, lastView>>
    /\ UNCHANGED now

\* the remote call of a suspended requestContent fails
RequestFail(i) ==
    /\ i \in DOMAIN requests
    /\ LET item == requests[i]
       IN  showNotification("Error", "Failed to request " \o item.title \o ".", "error")
    /\ requests' = RemoveAt(requests, i)
    /\ UNCHANGED <<modal, serverRequests, submitCount, hash, navCount>>
    /\ UNCHANGED refreshVars
    /\ UNCHANGED now
    /\ UNCHANGED viewVars

\* a first timer callback that removes the notification at once
notificationTimeout_removes(n) ==
    /\ n \in DOMAIN notifications
    /\ ~notifications[n].fadeOut
    /\ now = notifications[n].due
    /\ notifications' = RemoveAt(notifications, n)
    /\ UNCHANGED <<modal, requests, serverRequests, submitCount, hash, navCount>>
    /\ UNCHANGED refreshVars
    /\ UNCHANGED viewVars
    /\ UNCHANGED now

\* the first timer callback of a notification: fade-out is added to its
\* classes and the second timer is set
notificationTimeout(n) ==
    /\ n \in DOMAIN notifications
    /\ ~notifications[n].fadeOut
    /\ now = notifications[n].due
    /\ notifications' = [notifications EXCEPT ![n].fadeOut = TRUE,
                                               ![n].due = now + RemoveDelay]
    /\ UNCHANGED <<modal, requests, serverRequests, submitCount, hash, navCount>>
    /\ UNCHANGED refreshVars
    /\ UNCHANGED viewVars
    /\ UNCHANGED now

\* the second timer callback of a notification: notification.remove()
fadeOutTimeout(n) ==
    /\ n \in DOMAIN notifications
    /\ notifications[n].fadeOut
    /\ now = notifications[n].due
    /\ notifications' = RemoveAt(notifications, n)
    /\ UNCHANGED <<modal, requests, serverRequests, submitCount, hash, navCount>>
    /\ UNCHANGED refreshVars
    /\ UNCHANGED viewVars
    /\ UNCHANGED now

(***************************************************************************)
(* Time.  A timer callback runs at the time it is due: time passes by d    *)
(* milliseconds only when no pending timer is due before now + d.          *)
(***************************************************************************)
NoTimerDueBefore(t) ==
    /\ refreshTimer.armed => refreshTimer.due >= t
    /\ \A n \in DOMAIN notifications : notifications[n].due >= t

Advance(d, limit) ==
    /\ now + d <= limit
    /\ NoTimerDueBefore(now + d)
    /\ now' = now + d
    /\ UNCHANGED <<hash, navCount>>
    /\ UNCHANGED refreshVars
    /\ UNCHANGED viewVars
    /\ UNCHANGED requestVars

\* the steps of time the catalog cycle is checked with: the default period
\* is two of them, the saved one is one
RefreshTimeStep == 6 * MillisPerHour

(***************************************************************************)
(* The catalog cycle, from the plugin's construction: init, the timer, the *)
(* configuration saves and the refreshes, with the home section.           *)
(***************************************************************************)
\* the steps that are not the timer's: init, the saves, the responses
CatalogNext ==
    \/ init
    \/ \E settings \in SavedSettings : onSave(settings)
    \/ \E r \in 1..MaxRefresh, data \in NetworksResponses :
            r \in DOMAIN refreshes /\ NetworksOk(r, data)
    \/ \E r \in 1..MaxRefresh : r \in DOMAIN refreshes /\ NetworksFail(r)
    \/ \E r \in 1..MaxRefresh, data \in StudiosResponses :
            r \in DOMAIN refreshes /\ StudiosOk(r, data)
    \/ \E r \in 1..MaxRefresh : r \in DOMAIN refreshes /\ StudiosFail(r)
    \/ RenderHome

\* the catalog cycle when no time passes
SpecCatalog == Init /\ [][CatalogNext]_vars

RefreshNext ==
    \/ CatalogNext
    \/ Tick
    \/ Advance(RefreshTimeStep, MaxHours * MillisPerHour)

SpecRefresh == Init /\ [][RefreshNext]_vars

(***************************************************************************)
(* The catalog cycle together with the views: navigation, the browse page  *)
(* and the content pages.  No time passes here: the refreshes are the one  *)
(* of init and those of the configuration saves.                           *)
(***************************************************************************)
\* the content the views are checked with: the cards are not acted on here
ViewContent ==
    {[movies |-> <<>>, tvShows |-> <<>>]}
        \cup {[movies |-> <<item>>, tvShows |-> <<>>] : item \in MovieItems}

ViewNext ==
    \/ CatalogNext
    \/ \E path \in NavPaths : Navigate(path)
    \/ openNetworkBrowser
    \/ \E key \in NetworkCards : openNetworkContent(key)
    \/ \E key \in StudioCards : openStudioContent(key)
    \/ \E i \in DOMAIN renders, content \in ViewContent : ContentOk(i, content)
    \/ \E i \in DOMAIN renders : ContentFail(i)

SpecViews == Init /\ [][ViewNext]_vars

(***************************************************************************)
(* The request workflow, from a state in which init() has completed with   *)
(* both catalogs fetched: content pages, their cards, the details modal    *)
(* and the requests.                                                       *)
(***************************************************************************)
InitReady ==
    /\ initPc = "ready"
    /\ options = defaultSettings
    /\ serverConnector = JellyseerrServerConnector(defaultSettings)
    /\ networkCache = reduce(<<[id |-> 7, name |-> "HBO"]>>, EmptyObject)
    /\ studioCache = reduce(<<[id |-> 9, name |-> "Warner Bros."]>>, EmptyObject)
    /\ lastRefresh = 1
    /\ refreshes = <<"done">>
    /\ home = [rendered |-> FALSE, networks |-> <<>>, studios |-> <<>>]
    /\ hash = <<"/", "home">>
    /\ container = <<>>
    /\ renders = <<>>
    /\ lastView = [view |-> "Home", id |-> ""]
    /\ modal = NoModal
    /\ requests = <<>>
    /\ serverRequests = {}
    /\ notifications = <<>>
    /\ navCount = 0
    /\ submitCount = 0
    /\ saveCount = 0
    /\ now = 0
    /\ refreshTimer = setInterval(defaultSettings.refreshInterval * MillisPerHour, 0)

\* the page the request workflow is checked on
RequestPaths == {NetworkPrefix \o <<"7">>}

RequestNext ==
    \/ \E path \in RequestPaths : navCount < MaxVisits /\ Navigate(path)
    \/ \E i \in DOMAIN renders, content \in ContentResponses : ContentOk(i, content)
    \/ \E pos \in CardPositions : ClickRequestButton(pos)
    \/ \E pos \in CardPositions : ClickAvailableCard(pos)
    \/ \E pos \in CardPositions : ClickCard(pos)
    \/ ModalRequest
    \/ ModalClose
    \/ \E i \in DOMAIN requests : RequestOk(i)
    \/ \E i \in DOMAIN requests : RequestFail(i)

SpecRequests == InitReady /\ [][RequestNext]_vars

(***************************************************************************)
(* Overlapping refreshes, from the plugin's construction: every call       *)
(* succeeds, and the catalogs of the remote service change in such a way   *)
(* that what a refresh fetches tells which refresh it is.                  *)
(***************************************************************************)
\* what getNetworks returns to the r-th refresh
NetworksAt(r) ==
    IF r = 1 THEN <<[id |-> 7, name |-> "HBO"]>>
    ELSE IF r = 2 THEN <<[id |-> 8, name |-> "Netflix"]>>
    ELSE <<[id |-> 7, name |-> "HBO"], [id |-> 8, name |-> "Netflix"]>>

\* what getStudios returns to the r-th refresh
StudiosAt(r) ==
    IF r = 2 THEN <<>> ELSE <<[id |-> 9, name |-> "Warner Bros."]>>

OverlapNext ==
    \/ init
    \/ Tick
    \/ Advance(RefreshTimeStep, MaxHours * MillisPerHour)
    \/ \E settings \in SavedSettings : onSave(settings)
    \/ \E r \in 1..MaxRefresh : r \in DOMAIN refreshes /\ NetworksOk(r, NetworksAt(r))
    \/ \E r \in 1..MaxRefresh : r \in DOMAIN refreshes /\ StudiosOk(r, StudiosAt(r))

SpecOverlap == Init /\ [][OverlapNext]_vars

(***************************************************************************)
(* Startup, from the plugin's construction: init, the refreshes with both  *)
(* outcomes of their calls, the timer, the configuration saves, and view   *)
(* changes that can come at any moment; what a call returns when it        *)
(* succeeds is as above.                                                   *)
(***************************************************************************)
StartupPaths == {BrowsePath, NetworkPrefix \o <<"7">>}

StartupNext ==
    \/ init
    \/ Tick
    \/ Advance(RefreshTimeStep, MaxHours * MillisPerHour)
    \/ \E settings \in SavedSettings : onSave(settings)
    \/ \E r \in 1..MaxRefresh : r \in DOMAIN refreshes /\ NetworksOk(r, NetworksAt(r))
    \/ \E r \in 1..MaxRefresh : r \in DOMAIN refreshes /\ NetworksFail(r)
    \/ \E r \in 1..MaxRefresh : r \in DOMAIN refreshes /\ StudiosOk(r, StudiosAt(r))
    \/ \E r \in 1..MaxRefresh : r \in DOMAIN refreshes /\ StudiosFail(r)
    \/ \E path \in StartupPaths : Navigate(path)

SpecStartup == Init /\ [][StartupNext]_vars

(***************************************************************************)
(* The home section, from the plugin's construction: the refreshes of init *)
(* and of the saves, with networks responses in which two networks (two    *)
(* ids) can have one name: ids are unique within a catalog, names are not. *)
(***************************************************************************)
HomeNetworkEntities == NetworkEntities \cup {[id |-> 70, name |-> "HBO"]}

HomeNetworksResponses == BoundedSeq(HomeNetworkEntities, MaxCatalog)

HomeNext ==
    \/ init
    \/ \E settings \in SavedSettings : onSave(settings)
    \/ \E r \in 1..MaxRefresh, data \in HomeNetworksResponses :
            r \in DOMAIN refreshes /\ NetworksOk(r, data)
    \/ \E r \in 1..MaxRefresh, data \in StudiosResponses :
            r \in DOMAIN refreshes /\ StudiosOk(r, data)
    \/ RenderHome

SpecHome == Init /\ [][HomeNext]_vars

(***************************************************************************)
(* The content pages alone, from the same state: the detail views of a     *)
(* cached network and a cached studio, and both outcomes of the content    *)
(* call.                                                                   *)
(***************************************************************************)
ContentPaths == {NetworkPrefix \o <<"7">>, StudioPrefix \o <<"9">>}

ContentNext ==
    \/ \E path \in ContentPaths : Navigate(path)
    \/ \E i \in DOMAIN renders, content \in ViewContent : ContentOk(i, content)
    \/ \E i \in DOMAIN renders : ContentFail(i)

SpecContent == InitReady /\ [][ContentNext]_vars

(***************************************************************************)
(* The notifications, from the same state: a page with the card of one     *)
(* item, requests made from it, their outcomes, and the timers of the      *)
(* notifications they show; time passes in steps of the shorter delay.     *)
(***************************************************************************)
NotificationNext ==
    \/ \E path \in RequestPaths : navCount < MaxVisits /\ Navigate(path)
    \/ \E i \in DOMAIN renders, content \in ViewContent : ContentOk(i, content)
    \/ \E pos \in CardPositions : ClickRequestButton(pos)
    \/ \E i \in DOMAIN requests : RequestOk(i)
    \/ \E i \in DOMAIN requests : RequestFail(i)
    \/ \E n \in DOMAIN notifications : notificationTimeout(n)
    \/ \E n \in DOMAIN notifications : fadeOutTimeout(n)
    \/ Advance(RemoveDelay, MaxSeconds * 1000)

SpecNotifications == InitReady /\ [][NotificationNext]_vars

(***************************************************************************)
(* The same with the details modal, the other way to make a request: it    *)
(* opens for the card of every item that is not available, whatever the    *)
(* card's badge.                                                           *)
(***************************************************************************)
CardLifeNext ==
    \/ NotificationNext
    \/ \E pos \in CardPositions : ClickCard(pos)
    \/ ModalRequest
    \/ ModalClose

SpecCardLife == InitReady /\ [][CardLifeNext]_vars

(***************************************************************************)
(* Properties.                                                             *)
(***************************************************************************)
\* the cards of a container that represent the key of an item
Representations(cont, item) ==
    {cont[pos[1]][pos[2]][pos[3]] : pos \in
        {q \in PositionsIn(cont) : KeyOf(cont[q[1]][q[2]][q[3]].item) = KeyOf(item)}}

\* this step issues a remote submitRequest call
SubmitIssued == Len(requests') = Len(requests) + 1

\* the item of the call this step issues
Submitted == requests'[Len(requests')]

\* this step starts a renderCustomView: a view change delivered for one of
\* the plugin's paths, or the updateUI of a refresh while the location is one
RenderStarted ==
    \/ /\ navCount' = navCount + 1
       /\ initPc = "ready"
       /\ startsWith(hash', PluginPrefix)
    \/ /\ \E r \in DOMAIN refreshes : refreshes[r] = "getStudios" /\ refreshes'[r] = "done"
       /\ startsWith(hash, PluginPrefix)

\* C1: within one refresh the two fetches are independent: when the networks
\* call of a refresh has settled, failed or not, its studios call is issued,
\* and a failing studios call leaves the networks mapping as just replaced.
C1_FetchesIndependent ==
    [][\A r \in DOMAIN refreshes :
          /\ (refreshes[r] = "getNetworks" /\ refreshes'[r] # "getNetworks")
                => refreshes'[r] = "getStudios"
          /\ (refreshes[r] = "getStudios" /\ refreshes'[r] = "caughtStudios")
                => networkCache' = networkCache]_vars

\* C2: stale on failure: the step of a refresh in which the fetch of a
\* catalog fails leaves that catalog's mapping as it was, adds no
\* notification, and the refresh returns normally (init goes on when it is
\* the one it awaits).
C2_StaleOnFailure ==
    [][\A r \in DOMAIN refreshes :
          /\ NetworksFail(r) =>
                /\ networkCache' = networkCache
                /\ notifications' = notifications
                /\ refreshes'[r] = "caughtNetworks"
                /\ (r = 1 => initPc' = "ready")
          /\ StudiosFail(r) =>
                /\ studioCache' = studioCache
                /\ notifications' = notifications
                /\ refreshes'[r] = "caughtStudios"
                /\ (r = 1 => initPc' = "ready")]_vars

\* a timer-started second refresh failed at its networks call after the first
\* refresh had filled the networks mapping, which is still there
C2_Witness ==
    /\ saveCount = 0
    /\ refreshes = <<"done", "caughtNetworks">>
    /\ networkCache # EmptyObject

\* C3: optimistic pending: the step that issues the remote call for a
\* not-available item leaves every rendered card of that key without its
\* request button (the pending display).
C3_OptimisticPending ==
    [][(SubmitIssued /\ ~Submitted.available) =>
          \A card \in Representations(container', Submitted) : ~card.button]_vars

\* C4: identity fan-out: the step that handles a successful submission leaves
\* every rendered card of that key with the Requested badge and without a
\* request button.
C4_IdentityFanOut ==
    [][\A i \in DOMAIN requests :
          RequestOk(i) =>
              \A card \in Representations(container', requests[i]) :
                  card.badge = "Requested" /\ ~card.button]_vars

\* two cards of one key are rendered, a submission for the key has succeeded
\* and both show Requested without a button
C4_Witness ==
    \E pos \in CardPositions, other \in CardPositions :
        /\ pos # other
        /\ KeyOf(CardAt(pos).item) = KeyOf(CardAt(other).item)
        /\ KeyOf(CardAt(pos).item) \in serverRequests
        /\ \A q \in {pos, other} : CardAt(q).badge = "Requested" /\ ~CardAt(q).button
        /\ \E n \in DOMAIN notifications : notifications[n].type = "success"

\* C5: rollback: the step that handles a failed submission leaves every
\* rendered card of that key (of a not-available item) showing Not Available
\* with its request button, and adds exactly one notification, an error.
C5_Rollback ==
    [][\A i \in DOMAIN requests :
          RequestFail(i) =>
              /\ \A card \in Representations(container', requests[i]) :
                    ~card.item.available =>
                        card.badge = "Not Available" /\ card.button
              /\ Len(notifications') = Len(notifications) + 1
              /\ notifications'[Len(notifications')].type = "error"]_vars

\* the availability of a key in the request state machine
Availability(key) ==
    IF key \in serverRequests THEN "Requested"
    ELSE IF \E i \in DOMAIN requests : KeyOf(requests[i]) = key THEN "RequestPending"
    ELSE "NotAvailable"

\* C6: submit precondition: a remote submitRequest call is issued for a key
\* only when the key is NotAvailable: not while a call for it is outstanding
\* and not once it is Requested.
C6_SubmitPrecondition ==
    [][SubmitIssued => Availability(KeyOf(Submitted)) = "NotAvailable"]_vars

\* C7: available items never enter the request machine: no outstanding call
\* is for an available item, the modal never shows one, and no card of an
\* available item has a request button.
C7_AvailableNeverRequested ==
    /\ \A i \in DOMAIN requests : ~requests[i].available
    /\ modal.open => ~modal.item.available
    /\ \A pos \in CardPositions : CardAt(pos).item.available => ~CardAt(pos).button

\* the card of an available item is rendered and has been clicked: the host
\* shows the library item
C7_Witness ==
    /\ hash = <<"/", "details">>
    /\ \E pos \in CardPositions : CardAt(pos).item.available

\* the routing rules as the claim states them: the id is the whole remainder
\* of the path after the prefix
ClaimedResolve(path) ==
    IF path = BrowsePath THEN [view |-> "BrowseAll", id |-> ""]
    ELSE IF startsWith(path, NetworkPrefix)
         THEN [view |-> "NetworkDetail",
               id |-> Concat(SubSeq(path, Len(NetworkPrefix) + 1, Len(path)))]
    ELSE IF startsWith(path, StudioPrefix)
         THEN [view |-> "StudioDetail",
               id |-> Concat(SubSeq(path, Len(StudioPrefix) + 1, Len(path)))]
    ELSE [view |-> "Unrecognized", id |-> ""]

\* C8: routing: every renderCustomView takes the branch the rules give for
\* its path, with the whole remainder after the prefix as the id.
C8_Routing ==
    [][RenderStarted => lastView' = ClaimedResolve(hash')]_vars

\* C9: a view change to a path that matches no routing rule leaves the
\* content container as it was.
C9_UnrecognizedNoChange ==
    [][(navCount' = navCount + 1 /\ initPc = "ready"
            /\ ClaimedResolve(hash').view = "Unrecognized")
          => container' = container]_vars

\* C10: not found without fetch: a render of a detail path whose id is absent
\* from the catalog cache at that moment leaves the not-found page in the
\* container and issues no content call.
C10_NotFoundWithoutFetch ==
    [][RenderStarted =>
          /\ (lastView'.view = "NetworkDetail" /\ lastView'.id \notin DOMAIN networkCache')
                => /\ container' = <<NotFoundPage("Network not found")>>
                   /\ renders' = renders
          /\ (lastView'.view = "StudioDetail" /\ lastView'.id \notin DOMAIN studioCache')
                => /\ container' = <<NotFoundPage("Studio not found")>>
                   /\ renders' = renders]_vars

\* C11: a failed content call degrades: the step that handles the failure
\* ends the render (it is suspended no more), appends exactly one page to the
\* container, and that page holds the header of the entity, the error
\* placeholder and no content section; nothing else of the document changes
\* and no notification is shown.
C11_FailedFetchDegrades ==
    [][\A i \in DOMAIN renders :
          ContentFail(i) =>
              /\ renders' = RemoveAt(renders, i)
              /\ Len(container') = Len(container) + 1
              /\ SubSeq(container', 1, Len(container)) = container
              /\ LET page == container'[Len(container')]
                 IN  /\ page.kind = renders[i].kind
                     /\ page.title = renders[i].name
                     /\ page.error
                     /\ page.movies = <<>>
                     /\ page.tvShows = <<>>
              /\ notifications' = notifications]_vars

\* the content call for the cached network has failed and its page, header
\* and placeholder, is the page of the container
C11_Witness ==
    /\ renders = <<>>
    /\ container = <<[kind |-> "network", title |-> "HBO",
                      networks |-> {}, studios |-> {},
                      movies |-> <<>>, tvShows |-> <<>>, error |-> TRUE]>>

\* C12: notification lifecycle: a notification created at time t is in the
\* list and not fading while the time is before t + 5000, is fading once the
\* time is past t + 5000, and is in the list no later than t + 5500; it
\* leaves the list only at t + 5500, by a step that leaves every other
\* notification as it was, and a step that changes a notification in the
\* list only starts the fade-out of that one, at t + 5000.
C12_NotificationLifecycle ==
    /\ [](\A n \in DOMAIN notifications :
            LET t == notifications[n].created
            IN  /\ t <= now
                /\ now <= t + FadeOutDelay + RemoveDelay
                /\ now < t + FadeOutDelay => ~notifications[n].fadeOut
                /\ now > t + FadeOutDelay => notifications[n].fadeOut)
    /\ [][/\ Len(notifications') < Len(notifications) =>
                \E n \in DOMAIN notifications :
                    /\ notifications' = RemoveAt(notifications, n)
                    /\ notifications[n].fadeOut
                    /\ now = notifications[n].created + FadeOutDelay + RemoveDelay
          /\ Len(notifications') = Len(notifications) =>
                \A n \in DOMAIN notifications :
                    notifications'[n] # notifications[n] =>
                        /\ now = notifications[n].created + FadeOutDelay
                        /\ ~notifications[n].fadeOut /\ notifications'[n].fadeOut
                        /\ \A m \in DOMAIN notifications \ {n} :
                                notifications'[m] = notifications[m]
          /\ Len(notifications') > Len(notifications) =>
                /\ Len(notifications') = Len(notifications) + 1
                /\ SubSeq(notifications', 1, Len(notifications)) = notifications
                /\ notifications'[Len(notifications')].created = now]_vars

\* two notifications are shown at once, created at different times: the
\* first has started to fade out at its own time, the second has not
C12_Witness ==
    /\ Len(notifications) = 2
    /\ notifications[1].created < notifications[2].created
    /\ now = notifications[1].created + FadeOutDelay
    /\ notifications[1].fadeOut
    /\ ~notifications[2].fadeOut

\* C13: a configuration save starts a refresh in its own step and leaves the
\* periodic timer alone: the timer's period and the time its callback is due
\* are changed by no step but the arming in init() and the callback itself,
\* which runs when it is due and is due again one period later.
C13_SaveLeavesTimer ==
    [][/\ saveCount' = saveCount + 1 =>
             /\ Len(refreshes') = Len(refreshes) + 1
             /\ refreshes'[Len(refreshes')] = "getNetworks"
             /\ lastRefresh' = Len(refreshes')
             /\ refreshTimer' = refreshTimer
       /\ refreshTimer' # refreshTimer =>
             \/ ~refreshTimer.armed /\ initPc = "awaitRefresh" /\ initPc' = "ready"
             \/ /\ now = refreshTimer.due
                /\ refreshTimer' = [refreshTimer EXCEPT !.due = now + refreshTimer.interval]
                /\ Len(refreshes') = Len(refreshes) + 1]_vars

\* the timer was armed at time 0 with the default period of 12 hours, the
\* configuration was saved, and at 12 hours the callback has run: the refresh
\* of the save and the one of the timer are both in flight
C13_Witness ==
    /\ saveCount = 1
    /\ now = 12 * MillisPerHour
    /\ refreshTimer = [armed |-> TRUE, interval |-> 12 * MillisPerHour,
                       due |-> 24 * MillisPerHour]
    /\ Len(refreshes) = 3
    /\ refreshes[2] = "getStudios"
    /\ refreshes[3] = "getNetworks"

\* the mapping holds exactly the entities of the response, each under its id
HoldsExactly(cache, data) ==
    /\ DOMAIN cache = {ToString(data[i].id) : i \in DOMAIN data}
    /\ \A k \in DOMAIN cache :
          \E i \in DOMAIN data : ToString(data[i].id) = k /\ cache[k] = data[i]

\* C14: refresh atomicity: the step that handles the networks (studios)
\* response of a refresh leaves the networks (studios) mapping with exactly
\* the entities of that response, and every other step, while refreshes are
\* suspended at their calls or not, leaves the mapping as it was.
C14_RefreshAtomicity ==
    [][/\ \A r \in DOMAIN refreshes :
             (refreshes[r] = "getNetworks" /\ refreshes'[r] = "getStudios") =>
                 \A data \in NetworksResponses :
                     NetworksOk(r, data) => HoldsExactly(networkCache', data)
       /\ \A r \in DOMAIN refreshes :
             (refreshes[r] = "getStudios" /\ refreshes'[r] = "done") =>
                 \A data \in StudiosResponses :
                     StudiosOk(r, data) => HoldsExactly(studioCache', data)
       /\ networkCache' # networkCache =>
             \E r \in DOMAIN refreshes :
                 refreshes[r] = "getNetworks" /\ refreshes'[r] = "getStudios"
       /\ studioCache' # studioCache =>
             \E r \in DOMAIN refreshes :
                 refreshes[r] = "getStudios" /\ refreshes'[r] = "done"]_vars

\* a second refresh is suspended at its studios call: the networks mapping
\* is the one of its response, with nothing of the earlier one (which the
\* home section, rendered before, still shows), and the studios mapping is
\* still the earlier one
C14_Witness ==
    /\ Len(refreshes) = 2
    /\ refreshes[1] = "done"
    /\ refreshes[2] = "getStudios"
    /\ home.networks = <<"7">>
    /\ DOMAIN networkCache = {"8"}
    /\ DOMAIN studioCache = {"9"}

\* the keys of the cached entities whose name is one of the configured names
Matching(names, cache) ==
    {k \in DOMAIN cache : \E i \in DOMAIN names : cache[k].name = names[i]}

\* the list of cards, as keys of the cache, is the selection the claim
\* describes: exactly the matching entities, one card per configured name
\* that has a match, in the order of the configured names
IsSelection(shown, names, cache) ==
    /\ Range(shown) = Matching(names, cache)
    /\ [j \in DOMAIN shown |-> cache[shown[j]].name]
          = SelectSeq(names, LAMBDA name : \E k \in DOMAIN cache : cache[k].name = name)

\* C15: home selection: a step that renders the home section leaves it with
\* the networks that are exactly the cached entities whose name is configured
\* in displayNetworks, one card per configured name with a match, in the
\* order of displayNetworks; likewise the studios with displayStudios.
C15_HomeSelection ==
    [][(home'.rendered /\ home' # home) =>
          /\ IsSelection(home'.networks, options'.displayNetworks, networkCache')
          /\ IsSelection(home'.studios, options'.displayStudios, studioCache')]_vars

\* C16: duplicate submissions are not prevented: the step that issues a
\* remote submitRequest call changes no card, so every request button stays
\* where it was, and it leaves the outstanding calls, the ones for the same
\* key among them, outstanding.
C16_DuplicateSubmissions ==
    [][SubmitIssued =>
          /\ container' = container
          /\ SubSeq(requests', 1, Len(requests)) = requests]_vars

\* two submitRequest calls for one key are outstanding, and the card of the
\* key still has its request button
C16_Witness ==
    /\ \E i \in DOMAIN requests, j \in DOMAIN requests :
          i # j /\ KeyOf(requests[i]) = KeyOf(requests[j])
    /\ \E pos \in CardPositions :
          CardAt(pos).button /\ KeyOf(CardAt(pos).item) = KeyOf(requests[1])

\* the page is one that a render of the view adds
PageOfView(page, view) ==
    \/ view.view = "BrowseAll" /\ page.kind = "browse"
    \/ view.view = "NetworkDetail" /\ page.kind \in {"network", "notfound"}
    \/ view.view = "StudioDetail" /\ page.kind \in {"studio", "notfound"}

\* C17: latest navigation wins: whenever no content call is in flight, the
\* content container holds at most one page, and it is the page of the most
\* recent renderCustomView.
C17_LatestNavigationWins ==
    renders = <<>> =>
        /\ Len(container) <= 1
        /\ \A p \in DOMAIN container : PageOfView(container[p], lastView)

\* C18: saved credentials take effect: the connector's baseUrl and apiKey,
\* which every remote call uses, are those of the plugin's current options.
C18_SavedCredentialsInEffect ==
    /\ serverConnector.baseUrl = options.jellyseerrUrl
    /\ serverConnector.apiKey = options.jellyseerrApiKey

\* C19: overlapping refreshes do not go backwards: once all the refreshes
\* started have completed, each of them with both calls answered, each
\* catalog holds the data fetched by the refresh that was started last.
C19_RefreshesDoNotGoBackwards ==
    (Len(refreshes) >= 2 /\ \A r \in DOMAIN refreshes : refreshes[r] = "done") =>
        /\ networkCache = reduce(NetworksAt(Len(refreshes)), EmptyObject)
        /\ studioCache = reduce(StudiosAt(Len(refreshes)), EmptyObject)

\* the initial refresh, the one init() awaits, has returned
InitialRefreshReturned ==
    /\ refreshes # <<>>
    /\ refreshes[1] \in {"done", "caughtNetworks", "caughtStudios"}

\* C20: startup ordering: the periodic timer is armed and view changes are
\* listened to exactly when the initial refresh has returned, failed or not;
\* before that no refresh is started by the timer, and a view-change event
\* starts no render: container, suspended renders and the view rendered last
\* stay as they were.
C20_StartupOrdering ==
    /\ [](/\ refreshTimer.armed <=> InitialRefreshReturned
          /\ initPc = "ready" <=> InitialRefreshReturned)
    /\ [][/\ (navCount' = navCount + 1 /\ ~InitialRefreshReturned) =>
                UNCHANGED <<container, renders, lastView>>
          /\ (Len(refreshes') > Len(refreshes) /\ ~InitialRefreshReturned) =>
                initPc = "constructed" \/ saveCount' = saveCount + 1]_vars

\* the initial refresh has failed at its networks call; a view change to the
\* browse path came while it was in flight and nothing was rendered; the
\* timer is armed with the default period and view changes are listened to
C20_Witness ==
    /\ refreshes = <<"caughtNetworks">>
    /\ navCount = 1
    /\ hash = BrowsePath
    /\ container = <<>>
    /\ lastView.view = "Home"
    /\ initPc = "ready"
    /\ refreshTimer = setInterval(12 * MillisPerHour, 0)

\* the card shows the Requested badge and has no request button
ShowsRequested(card) == card.badge = "Requested" /\ ~card.button

\* C21: Requested is absorbing per card: a card that shows the Requested
\* badge without a request button is the same after every step that does
\* not start a render (which removes the cards of the container): it is
\* still there, still shows Requested and has no request button, whether
\* the step handles a later submission for its key, successful or failed,
\* runs a notification timer, or is any other.
C21_RequestedAbsorbing ==
    [][~RenderStarted =>
          \A pos \in CardPositions :
              ShowsRequested(CardAt(pos)) =>
                  /\ pos \in PositionsIn(container')
                  /\ container'[pos[1]][pos[2]][pos[3]] = CardAt(pos)]_vars

\* a card shows Requested; after the success a later submission for its key
\* has failed, and the timer of the success notification has run: the
\* notification fades out, the error is shown, the card is as it was
C21_Witness ==
    /\ \E pos \in CardPositions :
          /\ ShowsRequested(CardAt(pos))
          /\ KeyOf(CardAt(pos).item) \in serverRequests
    /\ Len(notifications) = 2
    /\ notifications[1].type = "success" /\ notifications[1].fadeOut
    /\ notifications[2].type = "error"
    /\ notifications[2].created > notifications[1].created
    /\ requests = <<>>

====
